---------------------------- MODULE Spec2Model ----------------------------
(***************************************************************************)
(* miniEVM (src/evm.ts): a bytecode interpreter whose stack holds          *)
(* TypeScript `number`s, i.e. IEEE-754 binary floating-point values.       *)
(*                                                                         *)
(* The model keeps the interpreter's state (code, pc, stack), the position *)
(* of run() (status), and the locals of the most recent loop iteration     *)
(* (op, popped, steps).  Spec is run() on a bytecode; MemSpec is the handler      *)
(* mstore8() of README.md, which run() does not dispatch to, called on a   *)
(* stack and a memory.  A stack element is a floating-point value          *)
(*       (-1)^neg * man * 2^exp     or NaN,                                *)
(* rounded to MantBits significant bits (round-to-nearest, ties-to-even)   *)
(* by every operation that rounds in the language.                         *)
(*                                                                         *)
(* Scale.  TLC's integers are 32 bits wide, so the two widths of the       *)
(* program are scaled down together:                                       *)
(*   WordBytes  stands for 32   (a Word is 32 bytes, `2 ** 256`);          *)
(*   MantBits   stands for 53   (the significand of a `number`).           *)
(* Bytes stay 8 bits wide and the opcode values are the source's.  As in   *)
(* the source, one byte is exactly representable (8 <= MantBits) and a     *)
(* full Word is not (MantBits < 8 * WordBytes).  The exponent range of a   *)
(* `number` is not reached by the programs within the bounds.  The sign of *)
(* a zero result is not modelled: -0 and +0 are one value, which no        *)
(* opcode of the program can tell apart (every division by zero is         *)
(* guarded by `=== 0`, true of both).                                      *)
(***************************************************************************)
EXTENDS Integers, Sequences, FiniteSets, TLC

\* ------------------------------------------------------------ opcodes
PUSH0 == 95
PUSH1 == 96
PUSH32 == 127
POP == 80
ADD == 1
MUL == 2
SUB == 3
DIV == 4
MOD == 6
LT == 16
GT == 17
EQ == 20

\* ------------------------------------------------------------ bounds
\* Bytes of a Word (32 in the source).
WordBytes == 2
\* Significand bits of a number (53 in the language).
MantBits == 8
\* Longest bytecode of the exhaustively enumerated programs.
MaxCodeLen == 3
\* Length of the all-PUSH0 program.
DeepLen == 1025

\* Largest offset the memory handler is given.
MaxOffset == 3
\* Longest of the enumerated initial memories.
MaxMemLen == 2

WordBits == 8 * WordBytes

\* ------------------------------------------------------------ numbers
RECURSIVE Pow2(_)
Pow2(k) == IF k <= 0 THEN 1 ELSE 2 * Pow2(k - 1)

\* Number of bits of the natural n (0 for 0).
RECURSIVE BitLen(_)
BitLen(n) == IF n = 0 THEN 0 ELSE 1 + BitLen(n \div 2)

NaN == [nan |-> TRUE, neg |-> FALSE, man |-> 0, exp |-> 0]
Zero == [nan |-> FALSE, neg |-> FALSE, man |-> 0, exp |-> 0]

\* The value (-1)^neg * n * 2^e in canonical form: an odd significand, so that
\* two records are equal exactly when the values are.
RECURSIVE Norm(_, _, _)
Norm(neg, n, e) ==
    IF n = 0 THEN Zero
    ELSE IF n % 2 = 0 THEN Norm(neg, n \div 2, e + 1)
    ELSE [nan |-> FALSE, neg |-> neg, man |-> n, exp |-> e]

\* (-1)^neg * (n + f) * 2^e, 0 <= f < 1 and f > 0 iff sticky, rounded to
\* MantBits significant bits, to nearest, ties to even.  A sticky n has more
\* than MantBits bits.
Rounded(neg, n, e, sticky) ==
    LET k == BitLen(n) - MantBits IN
    IF k <= 0 THEN Norm(neg, n, e)
    ELSE LET q == n \div Pow2(k)
             r == n % Pow2(k)
             half == Pow2(k - 1)
             up == r > half \/ (r = half /\ (sticky \/ q % 2 = 1))
         IN  Norm(neg, IF up THEN q + 1 ELSE q, e + k)

\* Rounded, with the expression given for n evaluated once (v is its value)
\* instead of at each of its uses; the value is the same.
Round(neg, n, e, sticky) ==
    CHOOSE x \in {Rounded(neg, v, e, sticky) : v \in {n}} : TRUE

\* The number nearest to the integer n.
Num(n) == Round(n < 0, IF n < 0 THEN -n ELSE n, 0, FALSE)


\* Position just above the leading bit: |x| < 2^TopBit(x), and 2^(TopBit(x)-1) <= |x|
\* for x # 0.
TopBit(x) == x.exp + BitLen(x.man)

Min(a, b) == IF a <= b THEN a ELSE b

\* |x| < |y|, neither NaN.
AbsLess(x, y) ==
    IF y.man = 0 THEN FALSE
    ELSE IF x.man = 0 THEN TRUE
    ELSE IF TopBit(x) # TopBit(y) THEN TopBit(x) < TopBit(y)
    ELSE LET e == Min(x.exp, y.exp)
         IN  x.man * Pow2(x.exp - e) < y.man * Pow2(y.exp - e)

\* The language's x < y: false when either side is NaN.
Less(x, y) ==
    /\ ~x.nan
    /\ ~y.nan
    /\ IF x.neg /\ ~y.neg THEN TRUE
       ELSE IF ~x.neg /\ y.neg THEN FALSE
       ELSE IF x.neg THEN AbsLess(y, x)
       ELSE AbsLess(x, y)

Fneg(x) == IF x.nan \/ x.man = 0 THEN x ELSE [x EXCEPT !.neg = ~x.neg]

\* The language's x + y: the exact sum, rounded.  An operand whose leading bit
\* lies more than MantBits + 2 places below the other's is less than a quarter
\* of the other's unit in the last place and rounds away.
Fadd(x, y) ==
    IF x.nan \/ y.nan THEN NaN
    ELSE IF x.man = 0 THEN y
    ELSE IF y.man = 0 THEN x
    ELSE IF TopBit(x) - TopBit(y) > MantBits + 2 THEN x
    ELSE IF TopBit(y) - TopBit(x) > MantBits + 2 THEN y
    ELSE LET e == Min(x.exp, y.exp)
             a == (IF x.neg THEN -1 ELSE 1) * x.man * Pow2(x.exp - e)
             b == (IF y.neg THEN -1 ELSE 1) * y.man * Pow2(y.exp - e)
             s == a + b
         IN  Round(s < 0, IF s < 0 THEN -s ELSE s, e, FALSE)

\* The language's x - y.
Fsub(x, y) == Fadd(x, Fneg(y))

\* The language's x * y: the exact product, rounded.
Fmul(x, y) ==
    IF x.nan \/ y.nan THEN NaN
    ELSE Round(x.neg # y.neg, x.man * y.man, x.exp + y.exp, FALSE)

\* The language's x / y: the quotient to MantBits + 2 bits and a sticky bit,
\* rounded.  x / 0 is an infinity or NaN; the program only ever takes the
\* remainder of a quotient, which is NaN for both, so NaN stands for them.
Fdiv(x, y) ==
    IF x.nan \/ y.nan \/ y.man = 0 THEN NaN
    ELSE IF x.man = 0 THEN Zero
    ELSE LET s == MantBits + 2 + BitLen(y.man) - BitLen(x.man)
             n == x.man * Pow2(s)
         IN  Round(x.neg # y.neg, n \div y.man, x.exp - y.exp - s, n % y.man # 0)

\* 2^d modulo m.
RECURSIVE PowMod2(_, _)
PowMod2(d, m) == IF d = 0 THEN 1 % m ELSE (2 * PowMod2(d - 1, m)) % m

\* The language's x % y: x - y * trunc(x / y), exact, with the sign of x;
\* NaN when x is NaN, y is NaN or y is 0.
Fmod(x, y) ==
    IF x.nan \/ y.nan \/ y.man = 0 THEN NaN
    ELSE IF AbsLess(x, y) THEN x
    ELSE IF x.exp >= y.exp
         THEN Norm(x.neg, (x.man * PowMod2(x.exp - y.exp, y.man)) % y.man, y.exp)
         ELSE Norm(x.neg, x.man % (y.man * Pow2(y.exp - x.exp)), x.exp)

\* 2 ** 256, at the model's scale.
TwoPow256 == Norm(FALSE, 1, WordBits)

\* ------------------------------------------------------------ handlers
\* Big-endian value of a byte sequence.
RECURSIVE BigEndian(_)
BigEndian(data) ==
    IF data = <<>> THEN 0
    ELSE 256 * BigEndian(SubSeq(data, 1, Len(data) - 1)) + data[Len(data)]

\* code.slice(from, to): the bytes at offsets from .. to-1 that exist.
Slice(bytes, from, to) == SubSeq(bytes, from + 1, Min(to, Len(bytes)))

\* parseInt(<two hex digits per byte, joined>, 16): the number nearest to the
\* big-endian value; NaN for the empty string.
PushValue(data) == IF data = <<>> THEN NaN ELSE Num(BigEndian(data))

AddResult(item1, item2) == Fmod(Fadd(item1, item2), TwoPow256)

MulResult(item1, item2) == Fmod(Fmul(item1, item2), TwoPow256)

SubResult(item1, item2) == Fmod(Fsub(item1, item2), TwoPow256)

\* div() without its `item2 === 0` branch.
DivResultUnguarded(item1, item2) == Fmod(Fdiv(item1, item2), TwoPow256)

DivResult(item1, item2) ==
    IF item2 = Zero THEN Zero ELSE Fmod(Fdiv(item1, item2), TwoPow256)

ModResult(item1, item2) ==
    IF item2 # Zero THEN Fmod(Fmod(item1, item2), TwoPow256) ELSE Zero

\* lt() with its operands the other way round.
LtResultSwapped(item1, item2) == IF Less(item2, item1) THEN Num(1) ELSE Zero

LtResult(item1, item2) == IF Less(item1, item2) THEN Num(1) ELSE Zero

\* gt() with its operands the other way round.
GtResultSwapped(item1, item2) == IF Less(item1, item2) THEN Num(1) ELSE Zero

GtResult(item1, item2) == IF Less(item2, item1) THEN Num(1) ELSE Zero

\* item2 === item1: false when either is NaN.
EqResult(item1, item2) ==
    IF ~item1.nan /\ ~item2.nan /\ item2 = item1 THEN Num(1) ELSE Zero

\* ------------------------------------------------------------ state
VARIABLES
    code,    \* the bytecode, a sequence of bytes
    pc,      \* offset of the next byte to fetch
    stack,   \* the stack, top last
    status,  \* where run() is: "Running", "Success" (the loop has ended),
             \* "StackUnderflow" (Error('Stack underflow') left run())
    op,      \* the byte the latest iteration fetched; -1 before the first
    popped,  \* the elements the latest iteration popped, first-popped first
    memory,  \* this.memory of the memory handlers (README.md), a sequence of
             \* bytes; run() of evm.ts dispatches to none of them
    steps    \* the number of iterations the loop of run() has begun

vars == <<code, pc, stack, status, op, popped, memory, steps>>

BinaryOps == {ADD, MUL, SUB, DIV, MOD, LT, GT, EQ}

Recognized == (PUSH1..PUSH32) \cup {PUSH0, POP} \cup BinaryOps

\* ------------------------------------------------------------ programs
\* Bytes the enumerated programs are made of: every opcode of the program,
\* PUSH2, PUSH32, and two bytes that are no opcode (0x00, 0xff).
Alphabet ==
    {0, ADD, MUL, SUB, DIV, MOD, LT, GT, EQ, POP, PUSH0, PUSH1, PUSH1 + 1, PUSH32, 255}

\* A PUSH-N of the program never has more than a Word of operand bytes; at the
\* model's scale that keeps every PUSH-N with N > WordBytes where the code
\* ends within WordBytes bytes of it.
Scaled(c) ==
    \A i \in 1..Len(c) :
        (c[i] >= PUSH1 + WordBytes /\ c[i] <= PUSH32) => Len(c) - i <= WordBytes

ShortPrograms ==
    {c \in UNION {[1..n -> Alphabet] : n \in 0..MaxCodeLen} : Scaled(c)}

\* The big-endian bytes of the Word w, without leading zero bytes.
RECURSIVE BytesOf(_)
BytesOf(w) == IF w < 256 THEN <<w>> ELSE Append(BytesOf(w \div 256), w % 256)

\* PUSH-N w, N the number of bytes of w.
PushW(w) == <<PUSH1 + Len(BytesOf(w)) - 1>> \o BytesOf(w)

\* Words the operand programs push: small ones, the first integer that is not
\* a number (2^MantBits + 1), half the Word range and the largest Word.
SampleWords ==
    {0, 1, 2, 3, 6, 10, Pow2(MantBits) + 1, Pow2(WordBits - 1), Pow2(WordBits) - 1}

\* PUSH b, PUSH a, o.
Prog2(b, a, o) == PushW(b) \o PushW(a) \o <<o>>

\* PUSH c, PUSH b, PUSH a, o1, o2.
Prog3(c, b, a, o1, o2) == PushW(c) \o PushW(b) \o PushW(a) \o <<o1, o2>>

TwoOperandPrograms ==
    {Prog2(b, a, o) : b \in SampleWords, a \in SampleWords, o \in BinaryOps}

ThreeOperandPrograms ==
    {Prog3(w[1], w[2], w[3], o[1], o[2]) :
        w \in SampleWords \X SampleWords \X SampleWords, o \in BinaryOps \X BinaryOps}

\* DeepLen times PUSH0.
DeepProgram == [i \in 1..DeepLen |-> PUSH0]

Programs ==
    ShortPrograms \cup TwoOperandPrograms \cup ThreeOperandPrograms \cup {DeepProgram}

\* ------------------------------------------------------------ actions
\* new EVM(code)
Init ==
    /\ code \in Programs
    /\ pc = 0
    /\ stack = <<>>
    /\ status = "Running"
    /\ op = -1
    /\ steps = 0
    /\ popped = <<>>
    /\ memory = <<>>

\* The loop condition of run() holds.
Looping == status = "Running" /\ pc < Len(code)

\* nextInstruction(): the byte at pc (pc is then advanced by 1).
Fetched == code[pc + 1]

\* PUSH1..PUSH32: push(size)
StepPush ==
    /\ Looping
    /\ Fetched >= PUSH1 /\ Fetched <= PUSH32
    /\ LET size == Fetched - PUSH1 + 1
           data == Slice(code, pc + 1, pc + 1 + size)
       IN  /\ stack' = Append(stack, PushValue(data))
           /\ pc' = pc + 1 + size
    /\ op' = Fetched
    /\ steps' = steps + 1
    /\ popped' = <<>>
    /\ UNCHANGED <<code, memory, status>>

\* PUSH0: this.stack.push(0)
StepPush0 ==
    /\ Looping
    /\ Fetched = PUSH0
    /\ stack' = Append(stack, Zero)
    /\ pc' = pc + 1
    /\ op' = Fetched
    /\ steps' = steps + 1
    /\ popped' = <<>>
    /\ UNCHANGED <<code, memory, status>>

\* pop() without its length check: [].pop() returns undefined and throws nothing.
StepPopUnchecked ==
    /\ Looping
    /\ Fetched = POP
    /\ pc' = pc + 1
    /\ op' = Fetched
    /\ steps' = steps + 1
    /\ stack' = SubSeq(stack, 1, Len(stack) - 1)
    /\ popped' = IF Len(stack) = 0 THEN <<>> ELSE <<stack[Len(stack)]>>
    /\ UNCHANGED <<code, memory, status>>

\* POP: pop()
StepPop ==
    /\ Looping
    /\ Fetched = POP
    /\ pc' = pc + 1
    /\ op' = Fetched
    /\ steps' = steps + 1
    /\ IF Len(stack) = 0
       THEN /\ status' = "StackUnderflow"
            /\ UNCHANGED <<stack, popped>>
       ELSE /\ stack' = SubSeq(stack, 1, Len(stack) - 1)
            /\ popped' = <<stack[Len(stack)]>>
            /\ UNCHANGED status
    /\ UNCHANGED <<code, memory>>

\* A handler that pops before it checks the length.
ThrowAfterPop ==
    /\ status' = "StackUnderflow"
    /\ popped' = <<>>
    /\ stack' = SubSeq(stack, 1, Len(stack) - 1)

\* throw new Error('Stack underflow'): the exception leaves run(), the stack
\* is as it was.
Throw ==
    /\ status' = "StackUnderflow"
    /\ popped' = <<>>
    /\ UNCHANGED stack

\* const item1 = this.stack.pop()!
Item1 == stack[Len(stack)]

\* const item2 = this.stack.pop()!
Item2 == stack[Len(stack) - 1]

\* A binary handler that pops item1 only.
PushResultOnePop(result) ==
    /\ stack' = Append(SubSeq(stack, 1, Len(stack) - 1), result)
    /\ popped' = <<Item1, Item2>>
    /\ UNCHANGED status

\* The two pops of a binary handler followed by this.stack.push(result).
PushResult(result) ==
    /\ stack' = Append(SubSeq(stack, 1, Len(stack) - 2), result)
    /\ popped' = <<Item1, Item2>>
    /\ UNCHANGED status

\* ADD: add()
StepAdd ==
    /\ Looping
    /\ Fetched = ADD
    /\ pc' = pc + 1
    /\ op' = Fetched
    /\ steps' = steps + 1
    /\ IF Len(stack) < 2 THEN Throw ELSE PushResult(AddResult(Item1, Item2))
    /\ UNCHANGED <<code, memory>>

\* MUL: mul()
StepMul ==
    /\ Looping
    /\ Fetched = MUL
    /\ pc' = pc + 1
    /\ op' = Fetched
    /\ steps' = steps + 1
    /\ IF Len(stack) < 2 THEN Throw ELSE PushResult(MulResult(Item1, Item2))
    /\ UNCHANGED <<code, memory>>

\* SUB: sub()
StepSub ==
    /\ Looping
    /\ Fetched = SUB
    /\ pc' = pc + 1
    /\ op' = Fetched
    /\ steps' = steps + 1
    /\ IF Len(stack) < 2 THEN Throw ELSE PushResult(SubResult(Item1, Item2))
    /\ UNCHANGED <<code, memory>>

\* DIV: div()
StepDiv ==
    /\ Looping
    /\ Fetched = DIV
    /\ pc' = pc + 1
    /\ op' = Fetched
    /\ steps' = steps + 1
    /\ IF Len(stack) < 2 THEN Throw ELSE PushResult(DivResult(Item1, Item2))
    /\ UNCHANGED <<code, memory>>

\* MOD: mod()
StepMod ==
    /\ Looping
    /\ Fetched = MOD
    /\ pc' = pc + 1
    /\ op' = Fetched
    /\ steps' = steps + 1
    /\ IF Len(stack) < 2 THEN Throw ELSE PushResult(ModResult(Item1, Item2))
    /\ UNCHANGED <<code, memory>>

\* LT: lt()
StepLt ==
    /\ Looping
    /\ Fetched = LT
    /\ pc' = pc + 1
    /\ op' = Fetched
    /\ steps' = steps + 1
    /\ IF Len(stack) < 2 THEN Throw ELSE PushResult(LtResult(Item1, Item2))
    /\ UNCHANGED <<code, memory>>

\* GT: gt()
StepGt ==
    /\ Looping
    /\ Fetched = GT
    /\ pc' = pc + 1
    /\ op' = Fetched
    /\ steps' = steps + 1
    /\ IF Len(stack) < 2 THEN Throw ELSE PushResult(GtResult(Item1, Item2))
    /\ UNCHANGED <<code, memory>>

\* EQ: eq()
StepEq ==
    /\ Looping
    /\ Fetched = EQ
    /\ pc' = pc + 1
    /\ op' = Fetched
    /\ steps' = steps + 1
    /\ IF Len(stack) < 2 THEN Throw ELSE PushResult(EqResult(Item1, Item2))
    /\ UNCHANGED <<code, memory>>

\* An iteration whose nextInstruction() leaves the pc where it is.
StepOtherStuck ==
    /\ Looping
    /\ Fetched \notin Recognized
    /\ pc' = pc
    /\ op' = Fetched
    /\ steps' = steps + 1
    /\ popped' = <<>>
    /\ UNCHANGED <<code, memory, stack, status>>

\* A byte no branch of run() matches: the iteration does nothing more.
StepOther ==
    /\ Looping
    /\ Fetched \notin Recognized
    /\ pc' = pc + 1
    /\ op' = Fetched
    /\ steps' = steps + 1
    /\ popped' = <<>>
    /\ UNCHANGED <<code, memory, stack, status>>

\* The loop condition fails: console.log(this.stack), run() returns.
Finish ==
    /\ status = "Running"
    /\ pc >= Len(code)
    /\ status' = "Success"
    /\ UNCHANGED <<code, memory, pc, stack, op, popped, steps>>

Next ==
    \/ StepPush
    \/ StepPush0
    \/ StepPop
    \/ StepAdd
    \/ StepMul
    \/ StepSub
    \/ StepDiv
    \/ StepMod
    \/ StepLt
    \/ StepGt
    \/ StepEq
    \/ StepOther
    \/ Finish

Spec == Init /\ [][Next]_vars

\* new EVM(code) for the exhaustively enumerated bytecodes.
FairInit ==
    /\ code \in ShortPrograms
    /\ pc = 0
    /\ stack = <<>>
    /\ status = "Running"
    /\ op = -1
    /\ steps = 0
    /\ popped = <<>>
    /\ memory = <<>>

\* run() is one synchronous call: while it has not returned or thrown, its
\* next iteration (or its return) is taken.
FairSpec == FairInit /\ [][Next]_vars /\ WF_vars(Next)

\* ------------------------------------------------------------ gas
\* The gas README.md says the opcode o consumes.
GasCost(o) ==
    CASE o = PUSH0 -> 2
      [] o >= PUSH1 /\ o <= PUSH32 -> 3
      [] o = POP -> 2
      [] o \in {ADD, SUB, LT, GT, EQ} -> 3
      [] o \in {MUL, DIV, MOD} -> 5

\* The gas run() deducts for the opcode o: the class has no gas counter and no
\* handler deducts anything.
GasCharged(o) == 0

\* ------------------------------------------------------------ memory
\* value & 0xff: ToInt32 of the number (NaN is 0, the fraction is cut off, the
\* integer is taken modulo 2^32 in two's complement), then its low eight bits.
LowByte(value) ==
    IF value.nan \/ value.man = 0 THEN 0
    ELSE LET r == IF value.exp >= 8 THEN 0
                  ELSE IF value.exp >= 0 THEN (value.man * Pow2(value.exp)) % 256
                  ELSE IF -value.exp >= BitLen(value.man) THEN 0
                  ELSE (value.man \div Pow2(-value.exp)) % 256
         IN  IF value.neg THEN (256 - r) % 256 ELSE r

\* while (this.memory.length < offset + 32) this.memory = [...this.memory, 0]
RECURSIVE Grow(_, _)
Grow(mem, offset) ==
    IF Less(Num(Len(mem)), Fadd(offset, Num(32)))
    THEN Grow(Append(mem, 0), offset)
    ELSE mem

\* mstore8 as a 32-byte store: the byte written at offset + 31, zeros before it.
Mstore8Result32(mem, offset, value) ==
    LET grown == Grow(mem, offset)
        o == offset.man * Pow2(offset.exp)
    IN  [i \in 1..Len(grown) |->
            IF i = o + 32 THEN LowByte(value)
            ELSE IF i > o /\ i < o + 32 THEN 0
            ELSE grown[i]]

\* The memory mstore8() leaves, for an offset that is a Word: grown, then
\* this.memory.set([value & 0xff], offset).
Mstore8Result(mem, offset, value) ==
    LET grown == Grow(mem, offset)
        o == offset.man * Pow2(offset.exp)
    IN  [grown EXCEPT ![o + 1] = LowByte(value)]

\* mstore8()
Mstore8 ==
    /\ status = "Running"
    /\ IF Len(stack) < 2
       THEN /\ Throw
            /\ UNCHANGED memory
       ELSE /\ stack' = SubSeq(stack, 1, Len(stack) - 2)
            /\ popped' = <<Item1, Item2>>
            /\ memory' = Mstore8Result(memory, Item1, Item2)
            /\ UNCHANGED status
    /\ UNCHANGED <<code, pc, op, steps>>

\* Offsets the handler is given.
MemOffsets == {Num(o) : o \in 0..MaxOffset}

\* Values the handler is given: Words below and above a byte, and what the
\* arithmetic handlers can leave on the stack (-1, 3.5, NaN).
MemValues ==
    {Zero, Num(1), Num(255), Num(Pow2(MantBits) + 3), Num(Pow2(WordBits) - 1),
     Num(-1), Norm(FALSE, 7, -1), NaN}

\* Stacks holding no, half, one or two (value, offset) pairs, offset on top.
MemStacks ==
    {<<>>} \cup {<<v>> : v \in MemValues}
           \cup {<<v, o>> : v \in MemValues, o \in MemOffsets}
           \cup {<<w, p, v, o>> : w \in {Num(1), Num(255)}, p \in MemOffsets,
                                  v \in MemValues, o \in MemOffsets}

\* Memories before the call: every short one over three byte values, and one
\* that no offset makes grow.
Memories ==
    UNION {[1..n -> {0, 1, 255}] : n \in 0..MaxMemLen}
        \cup {[i \in 1..(MaxOffset + 33) |-> 1]}

\* An EVM whose stack and memory earlier handlers have filled, before a call
\* of mstore8().
MemInit ==
    /\ code = <<>>
    /\ pc = 0
    /\ op = -1
    /\ steps = 0
    /\ popped = <<>>
    /\ status = "Running"
    /\ stack \in MemStacks
    /\ memory \in Memories

MemNext == Mstore8

MemSpec == MemInit /\ [][MemNext]_vars

\* ------------------------------------------------------------ properties
\* x is a Word: an integer in 0 .. 2^WordBits - 1.
IsWord(x) == ~x.nan /\ ~x.neg /\ x.exp >= 0 /\ TopBit(x) <= WordBits

\* The integer a Word x is.
IntOf(x) == x.man * Pow2(x.exp)

\* x is the integer n (|n| <= 2^(WordBits + 1)).
Is(x, n) ==
    /\ ~x.nan
    /\ x.exp >= 0
    /\ TopBit(x) <= WordBits + 2
    /\ (IF x.neg THEN -1 ELSE 1) * IntOf(x) = n

\* The latest iteration was the binary opcode o and did not throw.
Did(o) == op = o /\ Len(popped) = 2

Peek == stack[Len(stack)]

\* C1: PUSH b, PUSH a, SUB with a >= b halts successfully with the stack
\* holding exactly one element, a - b.
C1_SubOfPushed ==
    (status # "Running" /\ op = SUB) =>
        \A a \in SampleWords, b \in SampleWords :
            (a >= b /\ code = Prog2(b, a, SUB)) =>
                (status = "Success" /\ Len(stack) = 1 /\ Is(stack[1], a - b))

\* C2: SUB with first-popped Word a and second-popped Word b > a pushes the
\* Word 2^256 - (b - a).
C2_SubWraps ==
    (/\ Did(SUB)
     /\ IsWord(popped[1])
     /\ IsWord(popped[2])
     /\ IntOf(popped[2]) > IntOf(popped[1])) =>
        Is(Peek, Pow2(WordBits) - (IntOf(popped[2]) - IntOf(popped[1])))

\* C3: DIV with first-popped Word a and second-popped Word b # 0 pushes
\* floor(a / b).
C3_DivFloors ==
    (/\ Did(DIV)
     /\ IsWord(popped[1])
     /\ IsWord(popped[2])
     /\ popped[2] # Zero) =>
        Is(Peek, IntOf(popped[1]) \div IntOf(popped[2]))

\* C4: DIV and MOD with second-popped 0 throw nothing and replace the two
\* operands by 0; the run goes on.
C4_DivModByZero ==
    [][(/\ Looping
        /\ Fetched \in {DIV, MOD}
        /\ Len(stack) >= 2
        /\ stack[Len(stack) - 1] = Zero) =>
            /\ status' = "Running"
            /\ stack' = Append(SubSeq(stack, 1, Len(stack) - 2), Zero)]_vars

C4_Witness ==
    /\ op = DIV
    /\ popped = <<Num(10), Zero>>
    /\ stack = <<Zero>>
    /\ status = "Success"

\* C5: for Words a and b # 0, the q that DIV pushes and the r that MOD pushes
\* are Words with r < b and q*b + r = a modulo 2^256.
C5_DivModIdentity ==
    (/\ Did(DIV)
     /\ IsWord(popped[1])
     /\ IsWord(popped[2])
     /\ popped[2] # Zero) =>
        LET r == ModResult(popped[1], popped[2]) IN
        /\ IsWord(Peek)
        /\ IsWord(r)
        /\ IntOf(r) < IntOf(popped[2])
        /\ (IntOf(Peek) * IntOf(popped[2]) + IntOf(r)) % Pow2(WordBits) = IntOf(popped[1])

\* C6: PUSH a, PUSH b, ADD halts successfully with the stack holding exactly
\* one element, (a + b) mod 2^256, in either order of the pushes.
C6_AddOfPushed ==
    (status # "Running" /\ op = ADD) =>
        \A a \in SampleWords, b \in SampleWords :
            code \in {Prog2(a, b, ADD), Prog2(b, a, ADD)} =>
                /\ status = "Success"
                /\ Len(stack) = 1
                /\ Is(stack[1], (a + b) % Pow2(WordBits))

\* C7: SUB with first-popped add(a, b) and second-popped b yields a.
C7_SubUndoesAdd ==
    (status = "Success" /\ op = SUB) =>
        \A a \in SampleWords, b \in SampleWords :
            code = Prog3(b, b, a, ADD, SUB) => (Len(stack) = 1 /\ Is(stack[1], a))

\* C8: POP on an empty stack and a binary opcode on fewer than two elements end
\* the run in StackUnderflow, and nothing is executed after a StackUnderflow.
C8_Underflow ==
    [][/\ (/\ Looping
           /\ \/ Fetched = POP /\ Len(stack) = 0
              \/ Fetched \in BinaryOps /\ Len(stack) < 2) =>
                status' = "StackUnderflow"
       /\ status # "StackUnderflow"]_vars

C8_Witness ==
    /\ status = "StackUnderflow"
    /\ op \in BinaryOps
    /\ Len(stack) = 1
    /\ pc < Len(code)

\* C9: the stack never holds more than 1024 elements.
C9_DepthBounded == Len(stack) <= 1024

\* C10: a fetched byte that is no recognized opcode ends the run in
\* InvalidOpcode.
C10_InvalidOpcode == (op # -1 /\ op \notin Recognized) => status = "InvalidOpcode"

\* Operand length of the PUSH-N opcode o.
PushSize(o) == o - PUSH1 + 1

IsPush(o) == o >= PUSH1 /\ o <= PUSH32

\* C11: a PUSH-N followed by at least N bytes pushes one element, the
\* big-endian value of those N bytes, and moves the pc past them.
C11_PushOperand ==
    [][(/\ Looping
        /\ IsPush(Fetched)
        /\ pc + 1 + PushSize(Fetched) <= Len(code)) =>
            /\ pc' = pc + 1 + PushSize(Fetched)
            /\ Len(stack') = Len(stack) + 1
            /\ Is(stack'[Len(stack')],
                  BigEndian(SubSeq(code, pc + 2, pc + 1 + PushSize(Fetched))))]_vars

\* The operand bytes the latest PUSH-N found, when the code ended before the N-th.
PresentBytes == SubSeq(code, pc - PushSize(op) + 1, Len(code))

\* C12: a PUSH-N with k < N operand bytes left pushes the Word made of the k
\* bytes followed by N - k zero bytes (stated for N of at most a Word).
C12_PushPadsRight ==
    (IsPush(op) /\ pc > Len(code) /\ PushSize(op) <= WordBytes) =>
        Is(Peek, BigEndian(PresentBytes) * Pow2(8 * (pc - Len(code))))

\* C13: every opcode that executed was charged its gas cost (a run ends in
\* OutOfGas otherwise).
C13_GasCharged ==
    (op \in Recognized /\ status # "OutOfGas") => GasCharged(op) = GasCost(op)

C16_Store8Frame ==
    [][(/\ status = "Running"
        /\ Len(stack) >= 2
        /\ IsWord(Item1)
        /\ IsWord(Item2)) =>
            /\ Len(memory') >= Len(memory)
            /\ Len(memory') > IntOf(Item1)
            /\ memory'[IntOf(Item1) + 1] = IntOf(Item2) % 256
            /\ \A i \in 1..Len(memory) :
                   i # IntOf(Item1) + 1 => memory'[i] = memory[i]]_vars

C16_Witness ==
    /\ popped = <<Num(1), Num(255)>>
    /\ Len(memory) >= 3
    /\ memory[1] = 1
    /\ memory[2] = 255
    /\ memory[3] = 0

Max(a, b) == IF a >= b THEN a ELSE b

\* C17: after mstore8 at the Word offset o on a memory of length L the memory
\* has length max(L, o + 1).
C17_Store8Length ==
    [][(/\ status = "Running"
        /\ Len(stack) >= 2
        /\ IsWord(Item1)) =>
            Len(memory') = Max(Len(memory), IntOf(Item1) + 1)]_vars

\* C18: every element of the stack is a Word.
C18_StackOfWords == \A i \in 1..Len(stack) : IsWord(stack[i])

\* C19: a step that ends in StackUnderflow leaves the stack as it was.
C19_UnderflowKeepsStack == [][status' = "StackUnderflow" => stack' = stack]_vars

C19_Witness ==
    /\ status = "StackUnderflow"
    /\ op = ADD
    /\ stack = <<Num(1)>>

\* C20: a binary opcode on a stack of depth d >= 2 leaves depth d - 1 and the
\* d - 2 elements below the operands as they were.
C20_BinaryFrame ==
    [][(Looping /\ Fetched \in BinaryOps /\ Len(stack) >= 2) =>
            /\ Len(stack') = Len(stack) - 1
            /\ SubSeq(stack', 1, Len(stack) - 2) = SubSeq(stack, 1, Len(stack) - 2)]_vars

C20_Witness ==
    /\ op \in BinaryOps
    /\ Len(popped) = 2
    /\ Len(stack) = 2
    /\ stack[1] = Num(10)
    /\ popped[2] = Num(3)


\* ------------------------------------------------------------ C21
\* The states in which run() has ended: it returned, or an Error left it.
Terminal == status \in {"Success", "StackUnderflow"}

\* C21: for every bytecode run() eventually reaches a terminal state; every
\* iteration of the loop strictly increases the pc, so at most Len(code)
\* iterations are begun; and run() returns only with the pc at or past the
\* end of the code.
C21_Terminates ==
    /\ <>Terminal
    /\ [][steps' # steps => pc' > pc]_vars
    /\ [](steps <= Len(code))
    /\ [](status = "Success" => pc >= Len(code))

\* A run of a program of MaxCodeLen one-byte instructions that has returned.
C21_Witness ==
    /\ status = "Success"
    /\ Len(code) = MaxCodeLen
    /\ steps = Len(code)
    /\ pc = Len(code)

\* ------------------------------------------------------------ C22
\* C22: in every reachable state 0 <= pc <= Len(code), and a run that has
\* returned has pc = Len(code), also when the last instruction is a PUSH-N
\* whose operand is cut short by the end of the code.
C22_PcWithinCode ==
    /\ 0 <= pc
    /\ pc <= Len(code)
    /\ status = "Success" => pc = Len(code)

\* The pc never decreases between steps.
PcNeverDecreases == [][pc' >= pc]_vars

=============================================================================
